---- MODULE Spec2Model ----
(***************************************************************************)
(* Model of the data-model inference and comparison core of API-Visualizer: *)
(* schema inference and merging (utils/inferSchema.ts), the structural      *)
(* differ (utils/diffJson.ts), the filter evaluator (utils/applyFilters.ts) *)
(* and the chart projector (utils/buildChartData.ts).                       *)
(*                                                                         *)
(* Every function of the source is an operator of the same name, computed  *)
(* the way the source computes it; each exported entry point is one action  *)
(* that applies it to inputs drawn by the initial predicate.               *)
(***************************************************************************)
EXTENDS Integers, Sequences, FiniteSets, TLC

VARIABLES
    pc,         \* "init" before the call of the specification is made, then the name of the call
    nodeA, nodeB,   \* mergeSchemaNodes: the two SchemaNodes
    merged,     \* mergeSchemaNodes: the returned SchemaNode
    json,       \* inferSchema: the JSON value
    inferred,   \* inferSchema: the returned SchemaNode
    oldJson, newJson,   \* diffJson: the two JSON values
    diffTree,   \* diffJson: the returned DiffNode
    records,    \* applyFilters / buildChartData: the record list (the caller's array)
    rules1, rules2,     \* applyFilters: two rule lists
    filtered,   \* applyFilters: the returned list of the last call
    staged,     \* applyFilters: the list returned by the first of two chained calls
    chartConfig,    \* buildChartData: the ChartConfig
    chartRows,  \* buildChartData: the returned ChartDatum list
    network,    \* the requests handed to fetch so far
    loading,    \* useApiRequest: state.loading
    lastResult, \* useApiRequest: state.lastResult
    builder,    \* App: the RequestBuilderValue
    history,    \* App: the history list
    localStorage,   \* what window.localStorage holds under HISTORY_KEY
    pending,    \* the calls of execute that are waiting for axios.request
    clock,      \* the number of calls of execute so far: their id and createdAt
    preceding,  \* the result that lastResult held before the one it holds now
    subject,    \* the record handed to getValueAtPath
    probe,      \* the FilterRule whose path is resolved and whose test is made
    resolved,   \* what getValueAtPath returned
    matched,    \* what matchesFilter returned
    schemaIn,   \* the schema handed to the two field walks
    fieldList,  \* what collectFilterableFields returned
    numericPaths    \* what getNumericFieldPaths returned

\* the state of the application around the core
appVars == <<loading, lastResult, builder, history, localStorage, pending, clock, preceding>>

\* the state of the calls of the helpers of applyFilters.ts and buildChartData.ts
unitVars == <<subject, probe, resolved, matched, schemaIn, fieldList, numericPaths>>

\* the state of the calls of the core functions
coreCallVars == <<nodeA, nodeB, merged, json, inferred, oldJson, newJson, diffTree,
               records, rules1, rules2, filtered, staged, chartConfig, chartRows, network>>

vars == <<pc, nodeA, nodeB, merged, json, inferred, oldJson, newJson, diffTree,
          records, rules1, rules2, filtered, staged, chartConfig, chartRows, network,
          appVars, unitVars>>

----------------------------------------------------------------------------
(* Bounds *)

\* longest top-level array handed to inferSchema
MaxItems == 3
\* longest array nested inside an inferSchema input
MaxInnerLen == 1
\* most members of a union of primitives handed to mergeSchemaNodes
MaxUnionLen == 2
\* longest array handed to diffJson
MaxDiffLen == 2
\* most records handed to applyFilters and buildChartData
MaxRecords == 3
\* most rules in the two rule lists together
MaxRules == 2

----------------------------------------------------------------------------
(* Sequence helpers *)

Range(s) == {s[i] : i \in DOMAIN s}

\* the sequences over S of length at most n
SeqsUpTo(S, n) == UNION {[1..k -> S] : k \in 0..n}

\* the sequences that list every element of the finite set S exactly once
Perms(S) == {p \in [1..Cardinality(S) -> S] : Range(p) = S}

\* Array.prototype.indexOf on a list of strings: 0 when absent
IndexOf(s, x) == IF \E i \in DOMAIN s : s[i] = x
                 THEN CHOOSE i \in DOMAIN s : s[i] = x /\ \A j \in 1..(i-1) : s[j] # x
                 ELSE 0

----------------------------------------------------------------------------
(* Runtime values.  A JSON value is null, a boolean, a number, a string (a   *)
(* list of characters), an array or an object whose keys keep their         *)
(* insertion order; a lookup can also yield undefined or a function         *)
(* inherited from Object.prototype.                                         *)

JV(k, n, s, bl, ks, its) ==
    [k |-> k, n |-> n, s |-> s, b |-> bl, keys |-> ks, items |-> its]

JNull        == JV("null", 0, <<>>, FALSE, <<>>, <<>>)
JBool(x)     == JV("boolean", 0, <<>>, x, <<>>, <<>>)
JNum(x)      == JV("number", x, <<>>, FALSE, <<>>, <<>>)
JStr(x)      == JV("string", 0, x, FALSE, <<>>, <<>>)
JArr(its)    == JV("array", 0, <<>>, FALSE, <<>>, its)
JObj(ks, vs) == JV("object", 0, <<>>, FALSE, ks, vs)
JUndefined   == JV("undefined", 0, <<>>, FALSE, <<>>, <<>>)
JFunction    == JV("function", 0, <<>>, FALSE, <<>>, <<>>)

\* property names every plain object inherits from Object.prototype
ProtoKeys == {"toString"}

\* Object.keys(o)
ObjectKeys(o) == o.keys

\* key in o: own or inherited
In(key, o) == key \in Range(o.keys) \/ key \in ProtoKeys

\* o[key] for a plain object o
Get(o, key) ==
    IF key \in Range(o.keys) THEN o.items[IndexOf(o.keys, key)]
    ELSE IF key \in ProtoKeys THEN JFunction
    ELSE JUndefined

\* [...keysA, ...keysB] put through new Set(): first occurrences, in order
SetOfKeys(keysA, keysB) ==
    keysA \o SelectSeq(keysB, LAMBDA key : key \notin Range(keysA))

----------------------------------------------------------------------------
(* utils/inferSchema.ts: SchemaType and SchemaNode.                         *)
(* A SchemaType is a record of one shape for all four kinds; the members a  *)
(* kind does not have are empty.  itemSchema holds the one item node of an  *)
(* array; keys and fields hold an object's fields in insertion order.       *)

PrimitiveType == {"string", "number", "boolean", "null"}

ST(kind, type, itemSchema, keys, fields, types) ==
    [kind |-> kind, type |-> type, itemSchema |-> itemSchema,
     keys |-> keys, fields |-> fields, types |-> types]

Primitive(t)         == ST("primitive", t, <<>>, <<>>, <<>>, <<>>)
ArrayType(item)      == ST("array", "", <<item>>, <<>>, <<>>, <<>>)
ObjectType(ks, flds) == ST("object", "", <<>>, ks, flds, <<>>)
UnionType(ts)        == ST("union", "", <<>>, <<>>, <<>>, ts)

\* the value undefined where the code expects a SchemaType
UndefinedType == ST("undefined", "", <<>>, <<>>, <<>>, <<>>)
\* a TypeError thrown while the type was being computed
TypeError     == ST("TypeError", "", <<>>, <<>>, <<>>, <<>>)

\* { type, optional }
SchemaNode(type, optional) == [type |-> type, optional |-> optional]
\* a node-shaped value whose optional member is undefined
NodeNoOptional(type) == [type |-> type]
\* what fields[key] yields for an inherited key: a function, which has
\* neither a type nor an optional member
InheritedField == NodeNoOptional(UndefinedType)
\* the call that was computing this node threw
Thrown(node) == node.type.kind = "TypeError"

\* node.optional used as a condition
IsOptional(node) == "optional" \in DOMAIN node /\ node.optional

RECURSIVE StringifyType(_), StringifyNode(_), StringifyFields(_, _, _), StringifyTypes(_, _)

\* JSON.stringify of a SchemaType below the top level, as a token list
StringifyType(t) ==
    CASE t.kind = "primitive" ->
           <<"{", "\"kind\"", ":", "\"primitive\"", ",", "\"type\"", ":", "\"", t.type, "\"", "}">>
      [] t.kind = "array" ->
           <<"{", "\"kind\"", ":", "\"array\"", ",", "\"itemSchema\"", ":">>
           \o StringifyNode(t.itemSchema[1]) \o <<"}">>
      [] t.kind = "object" ->
           <<"{", "\"kind\"", ":", "\"object\"", ",", "\"fields\"", ":", "{">>
           \o StringifyFields(t.keys, t.fields, 1) \o <<"}", "}">>
      [] t.kind = "union" ->
           <<"{", "\"kind\"", ":", "\"union\"", ",", "\"types\"", ":", "[">>
           \o StringifyTypes(t.types, 1) \o <<"]", "}">>
      [] OTHER -> <<"null">>     \* undefined inside an array is written null

StringifyNode(node) ==
    <<"{", "\"type\"", ":">> \o StringifyType(node.type)
    \o (IF "optional" \in DOMAIN node
        THEN <<",", "\"optional\"", ":", IF node.optional THEN "true" ELSE "false">>
        ELSE <<>>)               \* a member that is undefined is left out
    \o <<"}">>

StringifyFields(keys, fields, i) ==
    IF i > Len(keys) THEN <<>>
    ELSE (IF i > 1 THEN <<",">> ELSE <<>>)
         \o <<"\"", keys[i], "\"", ":">> \o StringifyNode(fields[i])
         \o StringifyFields(keys, fields, i + 1)

StringifyTypes(types, i) ==
    IF i > Len(types) THEN <<>>
    ELSE (IF i > 1 THEN <<",">> ELSE <<>>)
         \o StringifyType(types[i]) \o StringifyTypes(types, i + 1)

\* JSON.stringify(t): undefined (here the empty token list) when t is undefined
Stringify(t) == IF t.kind = "undefined" THEN <<>> ELSE StringifyType(t)

\* fields[key] of an object type: the own field, else what the prototype
\* gives; HasField says whether the result is truthy
HasOwnField(t, key) == key \in Range(t.keys)
HasField(t, key)    == HasOwnField(t, key) \/ key \in ProtoKeys
FieldOf(t, key)     == IF HasOwnField(t, key) THEN t.fields[IndexOf(t.keys, key)]
                       ELSE InheritedField

RECURSIVE mergeSchemaTypes(_, _), mergeSchemaNodes(_, _)

mergeIntoUnion(union, other) ==
    LET exists == \E i \in DOMAIN union.types :
                      Stringify(union.types[i]) = Stringify(other)
    IN  IF exists THEN union
        ELSE UnionType(Append(union.types, other))

\* mergeSchemaTypes past its first test (lines 29-76)
mergeDistinctTypes(a, b) ==
    \* reading .kind of undefined throws
    IF a.kind = "undefined" THEN TypeError
    ELSE IF a.kind \in {"primitive", "array", "object"} /\ b.kind = "undefined" THEN TypeError
    ELSE IF a.kind = "primitive" /\ b.kind = "primitive"
    THEN IF a.type # b.type THEN UnionType(<<a, b>>) ELSE a
    ELSE IF a.kind = "array" /\ b.kind = "array"
    THEN LET mergedItem == mergeSchemaNodes(a.itemSchema[1], b.itemSchema[1])
         IN  IF Thrown(mergedItem) THEN TypeError ELSE ArrayType(mergedItem)
    ELSE IF a.kind = "object" /\ b.kind = "object"
    THEN LET allKeys == SetOfKeys(a.keys, b.keys)
             mergedField(key) ==
                 IF HasField(a, key) /\ HasField(b, key)
                 THEN mergeSchemaNodes(FieldOf(a, key), FieldOf(b, key))
                 ELSE IF HasField(a, key)
                 THEN SchemaNode(FieldOf(a, key).type, TRUE)
                 ELSE SchemaNode(FieldOf(b, key).type, TRUE)
             mergedFields == [i \in 1..Len(allKeys) |-> mergedField(allKeys[i])]
         IN  IF \E i \in DOMAIN mergedFields : Thrown(mergedFields[i])
             THEN TypeError
             ELSE ObjectType(allKeys, mergedFields)
    ELSE IF a.kind = "union" THEN mergeIntoUnion(a, b)
    ELSE IF b.kind = "union" THEN mergeIntoUnion(b, a)
    ELSE UnionType(<<a, b>>)

\* mergeSchemaTypes as it would be without the test for identical types
mergeSchemaTypesNoShortCircuit(a, b) == mergeDistinctTypes(a, b)

mergeSchemaTypes(a, b) ==
    IF Stringify(a) = Stringify(b) THEN a ELSE mergeDistinctTypes(a, b)

mergeSchemaNodes(a, b) ==
    LET mergedType == mergeSchemaTypes(a.type, b.type)
    IN  IF mergedType.kind = "TypeError" THEN NodeNoOptional(TypeError)
        \* a.optional || b.optional
        ELSE IF IsOptional(a) THEN SchemaNode(mergedType, TRUE)
        ELSE IF "optional" \in DOMAIN b THEN SchemaNode(mergedType, b.optional)
        ELSE NodeNoOptional(mergedType)

RECURSIVE reduceMerge(_, _)
\* itemSchemas.reduce((acc, node) => mergeSchemaNodes(acc, node)) over the
\* first n nodes; a throw ends the fold
reduceMerge(itemSchemas, n) ==
    IF n = 1 THEN itemSchemas[1]
    ELSE LET acc == reduceMerge(itemSchemas, n - 1)
         IN  IF Thrown(acc) THEN acc ELSE mergeSchemaNodes(acc, itemSchemas[n])

RECURSIVE inferTypeForValue(_)

\* inferTypeForValue giving an empty array the item type null
inferTypeForValueEmptyAsNull(value) ==
    IF value.k = "null" THEN Primitive("null")
    ELSE IF value.k = "array"
    THEN IF Len(value.items) = 0
         THEN ArrayType(SchemaNode(Primitive("null"), FALSE))
         ELSE LET itemSchemas == [i \in DOMAIN value.items |->
                                     SchemaNode(inferTypeForValue(value.items[i]), FALSE)]
                  mergedNode == reduceMerge(itemSchemas, Len(itemSchemas))
              IN  IF (\E i \in DOMAIN itemSchemas : Thrown(itemSchemas[i])) \/ Thrown(mergedNode)
                  THEN TypeError
                  ELSE ArrayType(mergedNode)
    ELSE IF value.k = "object"
    THEN LET fields == [i \in DOMAIN value.keys |->
                           SchemaNode(inferTypeForValue(value.items[i]), FALSE)]
         IN  IF \E i \in DOMAIN fields : Thrown(fields[i])
             THEN TypeError
             ELSE ObjectType(value.keys, fields)
    ELSE Primitive(IF value.k = "string" THEN "string"
                   ELSE IF value.k = "number" THEN "number"
                   ELSE IF value.k = "boolean" THEN "boolean"
                   ELSE "null")

inferTypeForValue(value) ==
    IF value.k = "null" THEN Primitive("null")
    ELSE IF value.k = "array"
    THEN IF Len(value.items) = 0
         THEN ArrayType(SchemaNode(Primitive("string"), FALSE))
         ELSE LET itemSchemas == [i \in DOMAIN value.items |->
                                     SchemaNode(inferTypeForValue(value.items[i]), FALSE)]
                  mergedNode == reduceMerge(itemSchemas, Len(itemSchemas))
              IN  IF (\E i \in DOMAIN itemSchemas : Thrown(itemSchemas[i])) \/ Thrown(mergedNode)
                  THEN TypeError
                  ELSE ArrayType(mergedNode)
    ELSE IF value.k = "object"
    THEN LET fields == [i \in DOMAIN value.keys |->
                           SchemaNode(inferTypeForValue(value.items[i]), FALSE)]
         IN  IF \E i \in DOMAIN fields : Thrown(fields[i])
             THEN TypeError
             ELSE ObjectType(value.keys, fields)
    ELSE Primitive(IF value.k = "string" THEN "string"
                   ELSE IF value.k = "number" THEN "number"
                   ELSE IF value.k = "boolean" THEN "boolean"
                   ELSE "null")

inferSchema(value) ==
    IF value.k = "array"
    THEN IF Len(value.items) = 0
         THEN SchemaNode(ArrayType(SchemaNode(Primitive("string"), FALSE)), FALSE)
         ELSE LET itemSchemas == [i \in DOMAIN value.items |->
                                     SchemaNode(inferTypeForValue(value.items[i]), FALSE)]
                  mergedNode == reduceMerge(itemSchemas, Len(itemSchemas))
              IN  IF (\E i \in DOMAIN itemSchemas : Thrown(itemSchemas[i])) \/ Thrown(mergedNode)
                  THEN NodeNoOptional(TypeError)
                  ELSE SchemaNode(ArrayType(mergedNode), FALSE)
    ELSE LET type == inferTypeForValue(value)
         IN  IF type.kind = "TypeError" THEN NodeNoOptional(TypeError)
             ELSE SchemaNode(type, FALSE)

----------------------------------------------------------------------------
(* Inputs of the schema calls *)

ScalarValues == {JNull, JBool(TRUE), JNum(1), JStr(<<"x">>)}
\* values of the fields of the objects below
FieldValues  == {JNum(1), JStr(<<"x">>)}
\* their keys: a plain one and one that Object.prototype also defines
FieldKeys    == {"a", "toString"}

\* the objects with the given keys, in every insertion order
ObjectsOver(keys, values) ==
    UNION {UNION {{JObj(ks, vs) : vs \in [1..Len(ks) -> values]} : ks \in Perms(K)}
             : K \in SUBSET keys}

ArraysOver(values, n) == {JArr(its) : its \in SeqsUpTo(values, n)}

\* what an array handed to inferSchema is made of
ElementValues ==
    ScalarValues \cup ObjectsOver(FieldKeys, {JNum(1)})
                 \cup UNION {ObjectsOver({key}, FieldValues) : key \in FieldKeys}
                 \cup ArraysOver(FieldValues, MaxInnerLen)
                 \cup {JObj(<<"a">>, <<JArr(<<>>)>>)}

JsonInputs == ElementValues \cup ArraysOver(ElementValues, MaxItems)

\* SchemaNodes handed to mergeSchemaNodes: primitives, unions of primitives,
\* objects in both key orders, arrays, and unions with an object, an array
\* or a union among their members
DistinctSeqs(S, n) == {s \in [1..n -> S] : \A i, j \in 1..n : i # j => s[i] # s[j]}

PrimitiveTypes == {Primitive(t) : t \in PrimitiveType}
ScalarUnions ==
    UNION {{UnionType(ts) : ts \in DistinctSeqs({Primitive("number"), Primitive("string"),
                                                  Primitive("boolean")}, n)}
             : n \in 2..MaxUnionLen}
FieldNodes ==
    {SchemaNode(Primitive("number"), FALSE), SchemaNode(Primitive("string"), FALSE),
     SchemaNode(Primitive("number"), TRUE),
     SchemaNode(UnionType(<<Primitive("number"), Primitive("string")>>), FALSE)}
ObjectTypes ==
    UNION {UNION {{ObjectType(ks, fs) : fs \in [1..Len(ks) -> FieldNodes]} : ks \in Perms(K)}
             : K \in SUBSET FieldKeys}
ArrayTypes ==
    {ArrayType(SchemaNode(t, FALSE)) : t \in {Primitive("number"), Primitive("string")} \cup ScalarUnions}
NestedUnions ==
    {UnionType(<<Primitive("null"), t>>) :
        t \in {ObjectType(<<"a">>, <<SchemaNode(Primitive("number"), FALSE)>>),
               ObjectType(<<"a", "toString">>, <<SchemaNode(Primitive("number"), FALSE),
                                                 SchemaNode(Primitive("string"), FALSE)>>),
               ArrayType(SchemaNode(Primitive("number"), FALSE)),
               UnionType(<<Primitive("number"), Primitive("string")>>)}}

SchemaTypes == PrimitiveTypes \cup ScalarUnions \cup ObjectTypes \cup ArrayTypes \cup NestedUnions
SchemaNodes == {SchemaNode(t, o) : t \in SchemaTypes, o \in BOOLEAN}

----------------------------------------------------------------------------
(* Values of the variables a specification does not use *)

NoNode   == NodeNoOptional(UndefinedType)
NoDiff   == [status |-> "none"]
NoConfig == [type |-> "none"]

IdleSchema == /\ nodeA = NoNode /\ nodeB = NoNode /\ merged = NoNode
IdleInfer  == /\ json = JUndefined /\ inferred = NoNode
IdleDiff   == /\ oldJson = JUndefined /\ newJson = JUndefined /\ diffTree = NoDiff
IdleFilter == /\ records = <<>> /\ rules1 = <<>> /\ rules2 = <<>>
              /\ filtered = <<>> /\ staged = <<>>
IdleChart  == /\ chartConfig = NoConfig /\ chartRows = <<>> /\ network = <<>>

\* null where a RequestExecutionResult is expected
NullResult == [null |-> TRUE]
\* localStorage.getItem(HISTORY_KEY) when nothing is stored: null
NoItem == [null |-> TRUE]
\* useState<RequestBuilderValue>({ url: "", method: "GET", headers: [] })
InitialBuilder == [url |-> "", method |-> "GET", headers |-> <<>>]

NoRule == [null |-> TRUE]
IdleMatch == /\ subject = JUndefined /\ probe = NoRule
             /\ resolved = JUndefined /\ matched = FALSE
IdleCollect == /\ schemaIn = NoNode /\ fieldList = <<>> /\ numericPaths = <<>>

\* the application before it is mounted
IdleApp == /\ loading = FALSE /\ lastResult = NullResult /\ builder = InitialBuilder
           /\ history = <<>> /\ localStorage = NoItem /\ pending = {}
           /\ clock = 0 /\ preceding = NullResult

----------------------------------------------------------------------------
(* mergeSchemaNodes applied to two nodes *)

InitMerge ==
    /\ pc = "init"
    /\ nodeA \in SchemaNodes /\ nodeB \in SchemaNodes /\ merged = NoNode
    /\ IdleInfer /\ IdleDiff /\ IdleFilter /\ IdleChart /\ IdleApp /\ IdleMatch /\ IdleCollect

MergeSchemaNodes ==
    /\ pc = "init"
    /\ merged' = mergeSchemaNodes(nodeA, nodeB)
    /\ pc' = "mergeSchemaNodes"
    /\ UNCHANGED <<nodeA, nodeB, json, inferred, oldJson, newJson, diffTree,
                   records, rules1, rules2, filtered, staged, chartConfig, chartRows, network, appVars, unitVars>>

SpecMerge == InitMerge /\ [][MergeSchemaNodes]_vars

----------------------------------------------------------------------------
(* inferSchema applied to a JSON value *)

InitInfer ==
    /\ pc = "init"
    /\ json \in JsonInputs /\ inferred = NoNode
    /\ IdleSchema /\ IdleDiff /\ IdleFilter /\ IdleChart /\ IdleApp /\ IdleMatch /\ IdleCollect

InferSchema ==
    /\ pc = "init"
    /\ inferred' = inferSchema(json)
    /\ pc' = "inferSchema"
    /\ UNCHANGED <<nodeA, nodeB, merged, json, oldJson, newJson, diffTree,
                   records, rules1, rules2, filtered, staged, chartConfig, chartRows, network, appVars, unitVars>>

SpecInfer == InitInfer /\ [][InferSchema]_vars

----------------------------------------------------------------------------
(* Structural equality of schemas: a union's members as a set, an object's  *)
(* fields as a mapping from key to node                                     *)

RECURSIVE CanonType(_), CanonNode(_)
CanonType(t) ==
    [kind   |-> t.kind,
     type   |-> t.type,
     item   |-> {CanonNode(t.itemSchema[i]) : i \in DOMAIN t.itemSchema},
     fields |-> {<<t.keys[i], CanonNode(t.fields[i])>> : i \in DOMAIN t.keys},
     types  |-> {CanonType(t.types[i]) : i \in DOMAIN t.types}]
CanonNode(node) ==
    [type     |-> CanonType(node.type),
     optional |-> IsOptional(node),
     defined  |-> "optional" \in DOMAIN node]

----------------------------------------------------------------------------
(* Properties of mergeSchemaNodes *)

\* C1: merging a node with itself returns that node: same type tree, same
\* optional flag.
MergeIdempotent ==
    (pc = "mergeSchemaNodes" /\ nodeA = nodeB) => merged = nodeA

\* a union, and a union nested in a union, merged with itself
MergeIdempotentWitness ==
    /\ pc = "mergeSchemaNodes" /\ nodeA = nodeB
    /\ nodeA.type.kind = "union"
    /\ \E i \in DOMAIN nodeA.type.types : nodeA.type.types[i].kind = "union"
    /\ nodeA.optional

\* C2: merge(a, b) equals merge(b, a) when union members are compared as
\* sets and object fields as mappings, for every pair of nodes.
MergeCommutative ==
    pc = "mergeSchemaNodes" => CanonNode(merged) = CanonNode(mergeSchemaNodes(nodeB, nodeA))

----------------------------------------------------------------------------
(* Properties of inferSchema *)

RECURSIVE UnionsDeduplicated(_)
\* no union of the type tree has two structurally equal members
UnionsDeduplicated(t) ==
    /\ \A i, j \in DOMAIN t.types :
          i # j => CanonType(t.types[i]) # CanonType(t.types[j])
    /\ \A i \in DOMAIN t.types : UnionsDeduplicated(t.types[i])
    /\ \A i \in DOMAIN t.itemSchema : UnionsDeduplicated(t.itemSchema[i].type)
    /\ \A i \in DOMAIN t.fields : UnionsDeduplicated(t.fields[i].type)

\* C3: no union in a schema returned by inferSchema has two members that
\* are structurally equal, object key order not counting.
InferredUnionsDeduplicated ==
    (pc = "inferSchema" /\ ~Thrown(inferred)) => UnionsDeduplicated(inferred.type)

IsArrayOfObjects(value) ==
    /\ value.k = "array" /\ Len(value.items) > 0
    /\ \A i \in DOMAIN value.items : value.items[i].k = "object"

\* C4: for a non-empty array of objects the item schema is an object schema
\* whose fields are the union of the elements' keys, a field being optional
\* exactly when some element lacks its key.
ArrayOfObjectsFields ==
    (pc = "inferSchema" /\ IsArrayOfObjects(json)) =>
        /\ ~Thrown(inferred)
        /\ inferred.type.kind = "array"
        /\ LET item == inferred.type.itemSchema[1].type
           IN  /\ item.kind = "object"
               /\ Range(item.keys) = UNION {Range(json.items[i].keys) : i \in DOMAIN json.items}
               /\ \A f \in DOMAIN item.keys :
                     IsOptional(item.fields[f]) <=>
                        \E i \in DOMAIN json.items : item.keys[f] \notin Range(json.items[i].keys)

\* the array with its elements in the order that the permutation p of the
\* positions gives
Permuted(value, p) == JArr([i \in DOMAIN value.items |-> value.items[p[i]]])

\* C17: for a non-empty array, inferSchema gives structurally equal schemas
\* (union members as sets, object fields as mappings) for every order of
\* the elements.
InferOrderIndependent ==
    (pc = "inferSchema" /\ json.k = "array" /\ Len(json.items) > 0) =>
        \A p \in Perms(DOMAIN json.items) :
            CanonNode(inferSchema(Permuted(json, p))) = CanonNode(inferred)

\* the type the code gives an empty array
EmptyArrayType == ArrayType(SchemaNode(Primitive("string"), FALSE))

RECURSIVE EmptyArraysTyped(_, _)
\* the node is the schema of the value as far as the empty arrays in it go:
\* an empty array has the node array<string>, not optional; the fields of an
\* object are looked at one by one, and so is the one item schema of an
\* array whose elements are all the same value
EmptyArraysTyped(value, node) ==
    IF value.k = "array" /\ Len(value.items) = 0
    THEN node = SchemaNode(EmptyArrayType, FALSE)
    ELSE IF value.k = "array" /\ \A i \in DOMAIN value.items : value.items[i] = value.items[1]
    THEN /\ node.type.kind = "array"
         /\ EmptyArraysTyped(value.items[1], node.type.itemSchema[1])
    ELSE IF value.k = "object"
    THEN /\ node.type.kind = "object"
         /\ \A i \in DOMAIN value.keys : EmptyArraysTyped(value.items[i], node.type.fields[i])
    ELSE TRUE

\* C18: an empty array is given the type array with the item schema
\* primitive string, not optional, and is itself not optional, whether it is
\* the top-level value, the value of a field or an element of an array.
EmptyArrayPlaceholder ==
    pc = "inferSchema" => EmptyArraysTyped(json, inferred)

\* an array of two or more objects that each hold an empty array in a field
EmptyArrayPlaceholderWitness ==
    /\ pc = "inferSchema"
    /\ json.k = "array" /\ Len(json.items) > 1
    /\ \A i \in DOMAIN json.items : json.items[i] = json.items[1]
    /\ json.items[1].k = "object"
    /\ \E f \in DOMAIN json.items[1].keys : json.items[1].items[f] = JArr(<<>>)
    /\ EmptyArraysTyped(json, inferred)

\* C12: inferSchema returns a defined result for every JSON value, whatever
\* its nesting and its field names: the call does not throw.
InferSchemaTotal ==
    pc = "inferSchema" => ~Thrown(inferred)

----------------------------------------------------------------------------
(* utils/diffJson.ts.  A DiffNode is a record with exactly the members the  *)
(* code sets: status always, oldValue and newValue when set, arrayItems for *)
(* two arrays, children (keys in insertion order, and their nodes) for two  *)
(* objects.                                                                 *)

\* typeof v
TypeOf(v) == IF v.k \in {"null", "array", "object"} THEN "object" ELSE v.k
\* Array.isArray(v)
IsArray(v) == v.k = "array"
\* v == null
IsNullish(v) == v.k \in {"null", "undefined"}
\* a == b, the comparison that converts: null equals undefined and a
\* boolean equals the number it converts to
LooseEquals(a, b) ==
    \/ a.k \notin {"array", "object"} /\ a = b
    \/ IsNullish(a) /\ IsNullish(b)
    \/ a.k = "boolean" /\ b.k = "number" /\ b.n = (IF a.b THEN 1 ELSE 0)
    \/ a.k = "number" /\ b.k = "boolean" /\ a.n = (IF b.b THEN 1 ELSE 0)

\* a === b: by value for primitives, null, undefined and the inherited
\* function; two arrays or two objects are the same reference only when
\* they are one value, and then the comparison of their contents that
\* deepEqual goes on to make has the same outcome
StrictEquals(a, b) == a.k \notin {"array", "object"} /\ a = b

RECURSIVE deepEqual(_, _)

\* deepEqual with its first two tests merged into "a null on the left is equal"
deepEqualNullLeft(a, b) ==
    IF IsNullish(a) THEN TRUE
    ELSE IF StrictEquals(a, b) THEN TRUE
    ELSE IF IsNullish(b) THEN FALSE
    ELSE IF TypeOf(a) # TypeOf(b) THEN FALSE
    ELSE IF IsArray(a) /\ IsArray(b)
    THEN /\ Len(a.items) = Len(b.items)
         /\ \A idx \in DOMAIN a.items : deepEqual(a.items[idx], b.items[idx])
    ELSE IF TypeOf(a) = "object" /\ TypeOf(b) = "object" /\ ~IsArray(a) /\ ~IsArray(b)
    THEN /\ Len(ObjectKeys(a)) = Len(ObjectKeys(b))
         /\ \A i \in DOMAIN a.keys : deepEqual(Get(a, a.keys[i]), Get(b, a.keys[i]))
    ELSE FALSE

\* deepEqual without its first test, a === b
deepEqualNoIdentity(a, b) ==
    IF IsNullish(a) \/ IsNullish(b) THEN StrictEquals(a, b)
    ELSE IF TypeOf(a) # TypeOf(b) THEN FALSE
    ELSE IF IsArray(a) /\ IsArray(b)
    THEN /\ Len(a.items) = Len(b.items)
         /\ \A idx \in DOMAIN a.items : deepEqual(a.items[idx], b.items[idx])
    ELSE IF TypeOf(a) = "object" /\ TypeOf(b) = "object" /\ ~IsArray(a) /\ ~IsArray(b)
    THEN /\ Len(ObjectKeys(a)) = Len(ObjectKeys(b))
         /\ \A i \in DOMAIN a.keys : deepEqual(Get(a, a.keys[i]), Get(b, a.keys[i]))
    ELSE FALSE

deepEqual(a, b) ==
    IF StrictEquals(a, b) THEN TRUE
    ELSE IF IsNullish(a) \/ IsNullish(b) THEN StrictEquals(a, b)
    ELSE IF TypeOf(a) # TypeOf(b) THEN FALSE
    ELSE IF IsArray(a) /\ IsArray(b)
    THEN /\ Len(a.items) = Len(b.items)
         /\ \A idx \in DOMAIN a.items : deepEqual(a.items[idx], b.items[idx])
    ELSE IF TypeOf(a) = "object" /\ TypeOf(b) = "object" /\ ~IsArray(a) /\ ~IsArray(b)
    THEN /\ Len(ObjectKeys(a)) = Len(ObjectKeys(b))
         /\ \A i \in DOMAIN a.keys : deepEqual(Get(a, a.keys[i]), Get(b, a.keys[i]))
    ELSE FALSE

hasTypeChange(a, b) ==
    IF IsNullish(a) /\ IsNullish(b) THEN FALSE
    ELSE IF IsNullish(a) \/ IsNullish(b) THEN TRUE
    ELSE IF IsArray(a) # IsArray(b) THEN TRUE
    ELSE IF TypeOf(a) # TypeOf(b) THEN TRUE
    ELSE FALSE

\* hasChanges over the nodes of a composite, counting only changed nodes
hasChangesChangedOnly(nodes) == \E i \in DOMAIN nodes : nodes[i].status = "changed"

\* hasChanges over the nodes of a composite, not counting added nodes
hasChangesNotAdded(nodes) ==
    \E i \in DOMAIN nodes : nodes[i].status \notin {"unchanged", "added"}

\* nodes.some((n) => n.status !== "unchanged")
hasChanges(nodes) == \E i \in DOMAIN nodes : nodes[i].status # "unchanged"

\* the smaller of the two lengths, where the code takes the larger
MathMin(m, n) == IF m <= n THEN m ELSE n

\* Math.max(m, n)
MathMax(m, n) == IF m >= n THEN m ELSE n

RECURSIVE compareValues(_, _)
compareValues(oldVal, newVal) ==
    IF IsArray(oldVal) /\ IsArray(newVal)
    THEN LET maxLength == MathMax(Len(oldVal.items), Len(newVal.items))
             arrayItems == [i \in 1..maxLength |->
                 IF i > Len(oldVal.items)
                 THEN [status |-> "added", newValue |-> newVal.items[i]]
                 ELSE IF i > Len(newVal.items)
                 THEN [status |-> "removed", oldValue |-> oldVal.items[i]]
                 ELSE compareValues(oldVal.items[i], newVal.items[i])]
         IN  [status     |-> IF hasChanges(arrayItems) THEN "changed" ELSE "unchanged",
              oldValue   |-> oldVal,
              newValue   |-> newVal,
              arrayItems |-> arrayItems]
    ELSE IF /\ TypeOf(oldVal) = "object" /\ oldVal.k # "null" /\ ~IsArray(oldVal)
            /\ TypeOf(newVal) = "object" /\ newVal.k # "null" /\ ~IsArray(newVal)
    THEN LET allKeys == SetOfKeys(ObjectKeys(oldVal), ObjectKeys(newVal))
             child(key) ==
                 IF ~In(key, oldVal)
                 THEN [status |-> "added", newValue |-> Get(newVal, key)]
                 ELSE IF ~In(key, newVal)
                 THEN [status |-> "removed", oldValue |-> Get(oldVal, key)]
                 ELSE compareValues(Get(oldVal, key), Get(newVal, key))
             nodes == [i \in 1..Len(allKeys) |-> child(allKeys[i])]
         IN  [status   |-> IF hasChanges(nodes) THEN "changed" ELSE "unchanged",
              oldValue |-> oldVal,
              newValue |-> newVal,
              children |-> [keys |-> allKeys, nodes |-> nodes]]
    ELSE IF deepEqual(oldVal, newVal)
    THEN [status |-> "unchanged", oldValue |-> oldVal, newValue |-> newVal]
    ELSE [status   |-> IF hasTypeChange(oldVal, newVal) THEN "changed" ELSE "changed",
          oldValue |-> oldVal,
          newValue |-> newVal]

diffJson(oldJsonValue, newJsonValue) == compareValues(oldJsonValue, newJsonValue)

----------------------------------------------------------------------------
(* diffJson applied to two JSON values *)

\* what the arrays and objects handed to diffJson hold
DiffItemValues ==
    {JNull, JNum(1), JNum(2), JObj(<<>>, <<>>), JObj(<<"a">>, <<JNum(1)>>), JArr(<<JNum(1)>>)}

DiffInputs ==
    {JNull, JBool(TRUE), JNum(1), JNum(2), JStr(<<"x">>)}
        \cup ObjectsOver(FieldKeys, DiffItemValues)
        \cup ArraysOver(DiffItemValues, MaxDiffLen)

InitDiff ==
    /\ pc = "init"
    /\ oldJson \in DiffInputs /\ newJson \in DiffInputs /\ diffTree = NoDiff
    /\ IdleSchema /\ IdleInfer /\ IdleFilter /\ IdleChart /\ IdleApp /\ IdleMatch /\ IdleCollect

DiffJson ==
    /\ pc = "init"
    /\ diffTree' = diffJson(oldJson, newJson)
    /\ pc' = "diffJson"
    /\ UNCHANGED <<nodeA, nodeB, merged, json, inferred, oldJson, newJson,
                   records, rules1, rules2, filtered, staged, chartConfig, chartRows, network, appVars, unitVars>>

SpecDiff == InitDiff /\ [][DiffJson]_vars

----------------------------------------------------------------------------
(* Properties of diffJson *)

IsComposite(node) == "children" \in DOMAIN node \/ "arrayItems" \in DOMAIN node
\* the children or items of a composite node, as a list
SubNodes(node) == IF "children" \in DOMAIN node THEN node.children.nodes
                  ELSE IF "arrayItems" \in DOMAIN node THEN node.arrayItems
                  ELSE <<>>

RECURSIVE CompositeStatusOK(_)
CompositeStatusOK(node) ==
    /\ IsComposite(node) =>
          /\ node.status \in {"unchanged", "changed"}
          /\ node.status = "unchanged" <=>
                \A i \in DOMAIN SubNodes(node) : SubNodes(node)[i].status = "unchanged"
    /\ \A i \in DOMAIN SubNodes(node) : CompositeStatusOK(SubNodes(node)[i])

\* C5: a node with children or arrayItems is unchanged exactly when all of
\* them are unchanged and is changed otherwise, never added or removed.
CompositeStatus == pc = "diffJson" => CompositeStatusOK(diffTree)

\* a changed composite none of whose sub-nodes is changed (they are added or
\* removed), and an unchanged composite inside a changed one
CompositeStatusWitness ==
    /\ pc = "diffJson"
    /\ IsComposite(diffTree) /\ diffTree.status = "changed"
    /\ \A i \in DOMAIN SubNodes(diffTree) :
          SubNodes(diffTree)[i].status \in {"added", "removed", "unchanged"}
    /\ \E i \in DOMAIN SubNodes(diffTree) :
          IsComposite(SubNodes(diffTree)[i]) /\ SubNodes(diffTree)[i].status = "unchanged"

RECURSIVE Swapped(_)
\* the node with added and removed exchanged and oldValue and newValue
\* exchanged, at every depth
Swapped(node) ==
    [m \in {IF n = "oldValue" THEN "newValue" ELSE IF n = "newValue" THEN "oldValue" ELSE n
              : n \in DOMAIN node} |->
        CASE m = "status"     -> IF node.status = "added" THEN "removed"
                                 ELSE IF node.status = "removed" THEN "added"
                                 ELSE node.status
          [] m = "oldValue"   -> node.newValue
          [] m = "newValue"   -> node.oldValue
          [] m = "arrayItems" -> [i \in DOMAIN node.arrayItems |-> Swapped(node.arrayItems[i])]
          [] m = "children"   -> [keys  |-> node.children.keys,
                                  nodes |-> [i \in DOMAIN node.children.nodes |->
                                                Swapped(node.children.nodes[i])]]]

RECURSIVE ByKey(_)
\* the node with the children of every object node as a set of key-node pairs
ByKey(node) ==
    [m \in DOMAIN node |->
        CASE m = "arrayItems" -> [i \in DOMAIN node.arrayItems |-> ByKey(node.arrayItems[i])]
          [] m = "children"   -> {<<node.children.keys[i], ByKey(node.children.nodes[i])>>
                                    : i \in DOMAIN node.children.keys}
          [] OTHER            -> node[m]]

\* C6: diffJson(y, x) is diffJson(x, y) with added and removed exchanged and
\* oldValue and newValue exchanged at every node, the shape being the same.
DiffSymmetric ==
    pc = "diffJson" => ByKey(diffJson(newJson, oldJson)) = ByKey(Swapped(diffTree))

\* a diff with an added key, a removed item below it and a null against a value
DiffSymmetricWitness ==
    /\ pc = "diffJson"
    /\ "children" \in DOMAIN diffTree
    /\ \E i \in DOMAIN diffTree.children.nodes : diffTree.children.nodes[i].status = "added"
    /\ \E i \in DOMAIN diffTree.children.nodes :
          LET n == diffTree.children.nodes[i]
          IN  /\ n.status = "changed" /\ ~IsComposite(n)
              /\ n.oldValue.k = "null" /\ n.newValue.k # "null"

RECURSIVE AllUnchanged(_)
AllUnchanged(node) ==
    /\ node.status = "unchanged"
    /\ \A i \in DOMAIN SubNodes(node) : AllUnchanged(SubNodes(node)[i])

\* C7: every node of diffJson(x, x) is unchanged.
DiffReflexive == (pc = "diffJson" /\ oldJson = newJson) => AllUnchanged(diffTree)

\* x an object holding an array holding a number
DiffReflexiveWitness ==
    /\ pc = "diffJson" /\ oldJson = newJson
    /\ "children" \in DOMAIN diffTree
    /\ \E i \in DOMAIN diffTree.children.nodes :
          LET n == diffTree.children.nodes[i]
          IN  /\ "arrayItems" \in DOMAIN n /\ n.arrayItems # <<>>
              /\ n.arrayItems[1].oldValue.k = "number"

RECURSIVE JsonEqual(_, _)
\* x and y are the same JSON value: primitives of the same type and value,
\* arrays of the same length with the same value at each position, objects
\* with the same keys, in whatever order, and the same value under each
JsonEqual(x, y) ==
    /\ x.k = y.k
    /\ CASE x.k = "array" ->
              /\ Len(x.items) = Len(y.items)
              /\ \A i \in DOMAIN x.items : JsonEqual(x.items[i], y.items[i])
         [] x.k = "object" ->
              /\ Range(x.keys) = Range(y.keys)
              /\ \A key \in Range(x.keys) :
                    JsonEqual(x.items[IndexOf(x.keys, key)], y.items[IndexOf(y.keys, key)])
         [] OTHER -> x = y

IsLeafPair(x, y) ==
    /\ ~(IsArray(x) /\ IsArray(y))
    /\ ~(x.k = "object" /\ y.k = "object")

\* C21: when the two values are neither two arrays nor two non-array
\* objects, the node has status, oldValue and newValue and nothing else;
\* the status is unchanged when the two are the same value of the same type
\* and changed otherwise, a change of kind like any other change.
LeafDiff ==
    (pc = "diffJson" /\ IsLeafPair(oldJson, newJson)) =>
        diffTree = [status   |-> IF oldJson = newJson THEN "unchanged" ELSE "changed",
                    oldValue |-> oldJson,
                    newValue |-> newJson]

\* a number against an object
LeafDiffWitness ==
    /\ pc = "diffJson"
    /\ oldJson.k = "number" /\ newJson.k = "object"
    /\ DOMAIN diffTree = {"status", "oldValue", "newValue"}
    /\ diffTree.status = "changed"

\* C20: for two arrays arrayItems is as long as the longer of them; item i
\* is the diff of old[i] and new[i] where both have an element, a node with
\* status added and newValue alone where only the new array has one, and a
\* node with status removed and oldValue alone where only the old array has
\* one: elements are paired by position, whatever they hold.
ArrayDiffByIndex ==
    (pc = "diffJson" /\ IsArray(oldJson) /\ IsArray(newJson)) =>
        /\ "arrayItems" \in DOMAIN diffTree
        /\ Len(diffTree.arrayItems) >= Len(oldJson.items)
        /\ Len(diffTree.arrayItems) >= Len(newJson.items)
        /\ Len(diffTree.arrayItems) \in {Len(oldJson.items), Len(newJson.items)}
        /\ \A i \in DOMAIN diffTree.arrayItems :
              diffTree.arrayItems[i] =
                  IF i > Len(oldJson.items)
                  THEN [status |-> "added", newValue |-> newJson.items[i]]
                  ELSE IF i > Len(newJson.items)
                  THEN [status |-> "removed", oldValue |-> oldJson.items[i]]
                  ELSE diffJson(oldJson.items[i], newJson.items[i])

\* the new array is the old one without its first element: the elements are
\* paired by position, so the first pair differs and the last is removed
ArrayDiffByIndexWitness ==
    /\ pc = "diffJson" /\ IsArray(oldJson) /\ IsArray(newJson)
    /\ Len(oldJson.items) = 2 /\ newJson.items = Tail(oldJson.items)
    /\ oldJson.items[1] # oldJson.items[2]
    /\ "arrayItems" \in DOMAIN diffTree
    /\ diffTree.arrayItems[1].status = "changed"
    /\ diffTree.arrayItems[2].status = "removed"

\* the value is an object that is not an array
IsPlainObject(v) == v.k = "object"
\* the object has the key itself
HasOwn(o, key) == key \in Range(o.keys)

\* C19: for two non-array objects the children have exactly the keys of the
\* two objects together; a key only the new object has maps to a node with
\* status added and newValue alone, a key only the old object has to a node
\* with status removed and oldValue alone, and a key both have to the diff
\* of the two field values.
ObjectDiffByKey ==
    (pc = "diffJson" /\ IsPlainObject(oldJson) /\ IsPlainObject(newJson)) =>
        /\ "children" \in DOMAIN diffTree
        /\ Range(diffTree.children.keys) = Range(oldJson.keys) \cup Range(newJson.keys)
        /\ Len(diffTree.children.keys) = Cardinality(Range(diffTree.children.keys))
        /\ \A i \in DOMAIN diffTree.children.keys :
              LET key  == diffTree.children.keys[i]
                  node == diffTree.children.nodes[i]
              IN  IF ~HasOwn(oldJson, key)
                  THEN node = [status |-> "added", newValue |-> Get(newJson, key)]
                  ELSE IF ~HasOwn(newJson, key)
                  THEN node = [status |-> "removed", oldValue |-> Get(oldJson, key)]
                  ELSE node = diffJson(Get(oldJson, key), Get(newJson, key))

----------------------------------------------------------------------------
(* Strings.  A string value is the list of its characters; a path is the    *)
(* list of its key names with a "." between them, so that "user.n" is       *)
(* <<"user", ".", "n">> and the empty string is <<>>.                       *)

UpperCase == <<"A", "B", "C", "D", "E", "F", "G", "H", "I", "J", "K", "L", "M",
               "N", "O", "P", "Q", "R", "S", "T", "U", "V", "W", "X", "Y", "Z">>
LowerCase == <<"a", "b", "c", "d", "e", "f", "g", "h", "i", "j", "k", "l", "m",
               "n", "o", "p", "q", "r", "s", "t", "u", "v", "w", "x", "y", "z">>

\* text.toLowerCase()
ToLowerCase(text) ==
    [i \in DOMAIN text |->
        IF \E j \in DOMAIN UpperCase : UpperCase[j] = text[i]
        THEN LowerCase[CHOOSE j \in DOMAIN UpperCase : UpperCase[j] = text[i]]
        ELSE text[i]]

\* text.startsWith(term)
StartsWith(text, term) ==
    Len(term) <= Len(text) /\ SubSeq(text, 1, Len(term)) = term

\* text.includes(term)
Includes(text, term) ==
    \E at \in 0..(Len(text) - Len(term)) : SubSeq(text, at + 1, at + Len(term)) = term

Digit(d) == <<"0", "1", "2", "3", "4", "5", "6", "7", "8", "9">>[d + 1]

RECURSIVE NaturalToString(_)
NaturalToString(n) ==
    IF n < 10 THEN <<Digit(n)>> ELSE NaturalToString(n \div 10) \o <<Digit(n % 10)>>

RECURSIVE StringOf(_), Join(_, _)
\* String(value)
StringOf(value) ==
    CASE value.k = "string"    -> value.s
      [] value.k = "number"    -> IF value.n < 0 THEN <<"-">> \o NaturalToString(0 - value.n)
                                  ELSE NaturalToString(value.n)
      [] value.k = "boolean"   -> IF value.b THEN <<"t", "r", "u", "e">>
                                  ELSE <<"f", "a", "l", "s", "e">>
      [] value.k = "null"      -> <<"n", "u", "l", "l">>
      [] value.k = "undefined" -> <<"u", "n", "d", "e", "f", "i", "n", "e", "d">>
      [] value.k = "array"     -> Join(value.items, 1)
      [] value.k = "object"    -> <<"[", "o", "b", "j", "e", "c", "t", " ",
                                    "O", "b", "j", "e", "c", "t", "]">>
      [] value.k = "function"  -> <<"f", "u", "n", "c", "t", "i", "o", "n", " ",
                                    "t", "o", "S", "t", "r", "i", "n", "g", "(", ")", " ",
                                    "{", " ", "[", "n", "a", "t", "i", "v", "e", " ",
                                    "c", "o", "d", "e", "]", " ", "}">>

\* items.join(",") from the i-th item on: null and undefined items are empty
Join(items, i) ==
    IF i > Len(items) THEN <<>>
    ELSE (IF i > 1 THEN <<",">> ELSE <<>>)
         \o (IF IsNullish(items[i]) THEN <<>> ELSE StringOf(items[i]))
         \o Join(items, i + 1)

RECURSIVE Split(_)
\* path.split("."): the key names between the dots, "" where there is none
Split(path) ==
    IF \A i \in DOMAIN path : path[i] # "."
    THEN <<IF path = <<>> THEN "" ELSE path[1]>>
    ELSE LET dot == CHOOSE i \in DOMAIN path :
                        path[i] = "." /\ \A j \in 1..(i - 1) : path[j] # "."
         IN  <<IF dot = 1 THEN "" ELSE path[1]>> \o Split(SubSeq(path, dot + 1, Len(path)))

\* the position of the array element that the key names, 0 if it names none
ArrayIndex(key) == CASE key = "0" -> 1 [] key = "1" -> 2 [] key = "2" -> 3 [] OTHER -> 0

\* acc[key] for an object or an array
GetProperty(acc, key) ==
    IF acc.k = "object" THEN Get(acc, key)
    ELSE IF key = "length" THEN JNum(Len(acc.items))
    ELSE IF ArrayIndex(key) \in 1..Len(acc.items) THEN acc.items[ArrayIndex(key)]
    ELSE IF key \in ProtoKeys THEN JFunction
    ELSE JUndefined

RECURSIVE reducePath(_, _, _)
\* keys.reduce(step, item) over the first n keys
reducePath(item, keys, n) ==
    IF n = 0 THEN item
    ELSE LET acc == reducePath(item, keys, n - 1)
         IN  IF IsNullish(acc) \/ TypeOf(acc) # "object" THEN JUndefined
             ELSE GetProperty(acc, keys[n])

\* getValueAtPath of applyFilters.ts and of buildChartData.ts (the same code)
getValueAtPath(item, path) == reducePath(item, Split(path), Len(Split(path)))

----------------------------------------------------------------------------
(* utils/applyFilters.ts.  A FilterRule is a record with the members its    *)
(* type has; min and max are there only when they are set.                  *)

\* matchesFilter with a number test that leaves the two bounds out
matchesFilterExclusive(value, filter) ==
    CASE filter.type = "string" ->
           IF IsNullish(value) THEN FALSE
           ELSE LET text == ToLowerCase(StringOf(value))
                    term == ToLowerCase(filter.value)
                IN  IF filter.mode = "contains" THEN Includes(text, term)
                    ELSE StartsWith(text, term)
      [] filter.type = "number" ->
           IF TypeOf(value) # "number" THEN FALSE
           ELSE IF "min" \in DOMAIN filter /\ value.n <= filter.min THEN FALSE
           ELSE IF "max" \in DOMAIN filter /\ value.n >= filter.max THEN FALSE
           ELSE TRUE
      [] filter.type = "boolean" ->
           IF TypeOf(value) # "boolean" THEN FALSE
           ELSE value.b = filter.value
      [] filter.type = "exists" ->
           LET exists == value.k # "undefined"
           IN  IF filter.mode = "exists" THEN exists ELSE ~exists
      [] OTHER -> TRUE

\* matchesFilter with an exists test of value != null
matchesFilterNullMissing(value, filter) ==
    CASE filter.type = "string" ->
           IF IsNullish(value) THEN FALSE
           ELSE LET text == ToLowerCase(StringOf(value))
                    term == ToLowerCase(filter.value)
                IN  IF filter.mode = "contains" THEN Includes(text, term)
                    ELSE StartsWith(text, term)
      [] filter.type = "number" ->
           IF TypeOf(value) # "number" THEN FALSE
           ELSE IF "min" \in DOMAIN filter /\ value.n < filter.min THEN FALSE
           ELSE IF "max" \in DOMAIN filter /\ value.n > filter.max THEN FALSE
           ELSE TRUE
      [] filter.type = "boolean" ->
           IF TypeOf(value) # "boolean" THEN FALSE
           ELSE value.b = filter.value
      [] filter.type = "exists" ->
           LET exists == ~IsNullish(value)
           IN  IF filter.mode = "exists" THEN exists ELSE ~exists
      [] OTHER -> TRUE

matchesFilter(value, filter) ==
    CASE filter.type = "string" ->
           IF IsNullish(value) THEN FALSE
           ELSE LET text == ToLowerCase(StringOf(value))
                    term == ToLowerCase(filter.value)
                IN  IF filter.mode = "contains" THEN Includes(text, term)
                    ELSE StartsWith(text, term)
      [] filter.type = "number" ->
           IF TypeOf(value) # "number" THEN FALSE
           ELSE IF "min" \in DOMAIN filter /\ value.n < filter.min THEN FALSE
           ELSE IF "max" \in DOMAIN filter /\ value.n > filter.max THEN FALSE
           ELSE TRUE
      [] filter.type = "boolean" ->
           IF TypeOf(value) # "boolean" THEN FALSE
           ELSE value.b = filter.value
      [] filter.type = "exists" ->
           LET exists == value.k # "undefined"
           IN  IF filter.mode = "exists" THEN exists ELSE ~exists
      [] OTHER -> TRUE

\* filters.every(...) for one item
passesEvery(item, filters) ==
    \A i \in DOMAIN filters : matchesFilter(getValueAtPath(item, filters[i].path), filters[i])

\* applyFilters keeping the items that satisfy some filter
applyFiltersSome(dataList, filters) ==
    IF Len(filters) = 0 THEN dataList
    ELSE SelectSeq(dataList, LAMBDA item :
             \E i \in DOMAIN filters :
                 matchesFilter(getValueAtPath(item, filters[i].path), filters[i]))

RECURSIVE PerFilter(_, _, _)
PerFilter(dataList, filters, i) ==
    IF i > Len(filters) THEN <<>>
    ELSE SelectSeq(dataList, LAMBDA item :
             matchesFilter(getValueAtPath(item, filters[i].path), filters[i]))
         \o PerFilter(dataList, filters, i + 1)
\* applyFilters filtering once per filter and joining the results
applyFiltersPerFilter(dataList, filters) ==
    IF Len(filters) = 0 THEN dataList ELSE PerFilter(dataList, filters, 1)

\* applyFilters testing every item against its first filter only
applyFiltersFirstOnly(dataList, filters) ==
    IF Len(filters) = 0 THEN dataList
    ELSE SelectSeq(dataList, LAMBDA item :
             matchesFilter(getValueAtPath(item, filters[1].path), filters[1]))

applyFilters(dataList, filters) ==
    IF Len(filters) = 0 THEN dataList
    ELSE SelectSeq(dataList, LAMBDA item : passesEvery(item, filters))

----------------------------------------------------------------------------
(* utils/buildChartData.ts.  xField and yField are a path or null.          *)

NullField    == [null |-> TRUE, path |-> <<>>]
Field(path)  == [null |-> FALSE, path |-> path]
\* !field: null or the empty string
IsUnset(field) == field.null \/ field.path = <<>>

RECURSIVE chartRowsOf(_, _, _, _)
\* buildChartData skipping a row only when its x value is undefined
chartRowsOfUndefinedOnly(dataList, xField, yField, n) ==
    IF n = 0 THEN <<>>
    ELSE LET row  == dataList[n]
             xVal == getValueAtPath(row, xField.path)
             yVal == getValueAtPath(row, yField.path)
             rest == chartRowsOf(dataList, xField, yField, n - 1)
         IN  IF TypeOf(yVal) # "number" THEN rest
             ELSE IF xVal.k = "undefined" THEN rest
             ELSE Append(rest, [x |-> IF TypeOf(xVal) = "number" THEN xVal
                                      ELSE JStr(StringOf(xVal)),
                                y |-> yVal])

\* buildChartData putting each row in front of the rows before it
chartRowsOfUnshift(dataList, xField, yField, n) ==
    IF n = 0 THEN <<>>
    ELSE LET row  == dataList[n]
             xVal == getValueAtPath(row, xField.path)
             yVal == getValueAtPath(row, yField.path)
             rest == chartRowsOf(dataList, xField, yField, n - 1)
         IN  IF TypeOf(yVal) # "number" THEN rest
             ELSE IF IsNullish(xVal) THEN rest
             ELSE <<[x |-> IF TypeOf(xVal) = "number" THEN xVal
                           ELSE JStr(StringOf(xVal)),
                     y |-> yVal]>> \o rest

\* the rows pushed for the first n records
chartRowsOf(dataList, xField, yField, n) ==
    IF n = 0 THEN <<>>
    ELSE LET row  == dataList[n]
             xVal == getValueAtPath(row, xField.path)
             yVal == getValueAtPath(row, yField.path)
             rest == chartRowsOf(dataList, xField, yField, n - 1)
         IN  IF TypeOf(yVal) # "number" THEN rest
             ELSE IF IsNullish(xVal) THEN rest
             ELSE Append(rest, [x |-> IF TypeOf(xVal) = "number" THEN xVal
                                      ELSE JStr(StringOf(xVal)),
                                y |-> yVal])

buildChartData(dataList, config) ==
    IF IsUnset(config.xField) \/ IsUnset(config.yField) THEN <<>>
    ELSE chartRowsOf(dataList, config.xField, config.yField, Len(dataList))

\* the request buildChartData hands to fetch before it returns its rows
chartLogRequest(dataList, config, outputRows) ==
    [url    |-> "http://127.0.0.1:7243/ingest/a1f3ebfc-bca2-49cb-91f6-22ba8b379fbe",
     method |-> "POST",
     inputRows  |-> Len(dataList),
     outputRows |-> Len(outputRows),
     xField |-> config.xField.path,
     yField |-> config.yField.path]

----------------------------------------------------------------------------
(* collectFilterableFields of applyFilters.ts and getNumericFieldPaths of   *)
(* buildChartData.ts.  A path is a string: the list of its key names and    *)
(* dots, in which the empty key name takes no place.                        *)

\* the schema null
NullSchema == [null |-> TRUE]

\* the characters of a key
KeyText(key) == IF key = "" THEN <<>> ELSE <<key>>

\* pathPrefix ? `${pathPrefix}.${key}` : key
nextPath(pathPrefix, key) ==
    IF pathPrefix # <<>> THEN pathPrefix \o <<".">> \o KeyText(key) ELSE KeyText(key)

\* the FieldKind of a primitive type
mapped(type) == IF type \in {"string", "number", "boolean"} THEN type ELSE "unknown"

\* the members of a union that are primitive
primitiveTypes(types) == SelectSeq(types, LAMBDA t : t.kind = "primitive")

RECURSIVE visitFields(_, _), visitEntries(_, _, _)
\* the entries visit(node, pathPrefix) of collectFilterableFields pushes
visitFields(node, pathPrefix) ==
    CASE node.type.kind = "object" -> visitEntries(node, pathPrefix, 1)
      [] node.type.kind = "primitive" ->
           <<[path |-> pathPrefix, kind |-> mapped(node.type.type), optional |-> node.optional]>>
      [] node.type.kind = "union" ->
           IF Len(primitiveTypes(node.type.types)) = Len(node.type.types)
           THEN <<[path |-> pathPrefix, kind |-> "unknown", optional |-> node.optional]>>
           ELSE <<>>
      [] OTHER -> <<>>

\* Object.entries(node.type.fields).forEach(...) from the i-th entry on
visitEntries(node, pathPrefix, i) ==
    IF i > Len(node.type.keys) THEN <<>>
    ELSE visitFields(node.type.fields[i], nextPath(pathPrefix, node.type.keys[i]))
         \o visitEntries(node, pathPrefix, i + 1)

collectFilterableFields(schema, basePath) ==
    IF schema = NullSchema THEN <<>> ELSE visitFields(schema, basePath)

\* types.some(t => t.kind === "primitive" && t.type === "number")
hasNumber(types) == \E i \in DOMAIN types : types[i].kind = "primitive" /\ types[i].type = "number"

RECURSIVE visitNumeric(_, _), visitNumericEntries(_, _, _)
\* the paths visit(node, prefix) of getNumericFieldPaths pushes
visitNumeric(node, prefix) ==
    CASE node.type.kind = "object" -> visitNumericEntries(node, prefix, 1)
      [] node.type.kind = "primitive" /\ node.type.type = "number" -> <<prefix>>
      [] node.type.kind = "union" -> IF hasNumber(node.type.types) THEN <<prefix>> ELSE <<>>
      [] OTHER -> <<>>

visitNumericEntries(node, prefix, i) ==
    IF i > Len(node.type.keys) THEN <<>>
    ELSE visitNumeric(node.type.fields[i], nextPath(prefix, node.type.keys[i]))
         \o visitNumericEntries(node, prefix, i + 1)

getNumericFieldPaths(schema) ==
    IF schema = NullSchema THEN <<>> ELSE visitNumeric(schema, <<>>)

----------------------------------------------------------------------------
(* Inputs of applyFilters and buildChartData *)

RecordValues ==
    {JObj(<<"n", "s">>, <<JNum(1), JStr(<<"A", "b">>)>>),
     JObj(<<"n", "s">>, <<JNum(12), JNull>>),
     JObj(<<"s", "n">>, <<JBool(TRUE), JNull>>),
     JObj(<<"u", "s">>, <<JObj(<<"n">>, <<JNum(2)>>), JStr(<<"a">>)>>)}

RecordLists == SeqsUpTo(RecordValues, MaxRecords)

FilterRules ==
    {[id |-> "f1", type |-> "string", path |-> <<"s">>, mode |-> "contains", value |-> <<"a">>],
     [id |-> "f2", type |-> "string", path |-> <<"n">>, mode |-> "startsWith", value |-> <<"1">>],
     [id |-> "f3", type |-> "number", path |-> <<"n">>, min |-> 2],
     [id |-> "f4", type |-> "boolean", path |-> <<"s">>, value |-> TRUE],
     [id |-> "f5", type |-> "exists", path |-> <<"u", ".", "n">>, mode |-> "missing"]}

RuleLists == SeqsUpTo(FilterRules, MaxRules)

ChartFields == {NullField, Field(<<>>), Field(<<"s">>), Field(<<"n">>),
                Field(<<"u", ".", "n">>), Field(<<"toString">>)}
ChartConfigs == {[xField |-> x, yField |-> y, type |-> t] :
                    x \in ChartFields, y \in ChartFields, t \in {"bar", "line"}}

----------------------------------------------------------------------------
(* applyFilters applied to a record list: once with rules1 ++ rules2, and    *)
(* with rules1 and then rules2 on what the first call returned.  The calls   *)
(* read the caller's array and leave it as it is (filter, every and reduce   *)
(* assign nothing in it).                                                    *)

InitFilter ==
    /\ pc = "init"
    /\ records \in RecordLists
    /\ \E rules \in RuleLists : \E cut \in 0..Len(rules) :
          /\ rules1 = SubSeq(rules, 1, cut)
          /\ rules2 = SubSeq(rules, cut + 1, Len(rules))
    /\ filtered = <<>> /\ staged = <<>>
    /\ IdleSchema /\ IdleInfer /\ IdleDiff /\ IdleChart /\ IdleApp /\ IdleMatch /\ IdleCollect

ApplyFilters ==
    /\ pc = "init"
    /\ filtered' = applyFilters(records, rules1 \o rules2)
    /\ pc' = "applyFilters"
    /\ UNCHANGED <<nodeA, nodeB, merged, json, inferred, oldJson, newJson, diffTree,
                   records, rules1, rules2, staged, chartConfig, chartRows, network, appVars, unitVars>>

ApplyFirst ==
    /\ pc = "init"
    /\ staged' = applyFilters(records, rules1)
    /\ pc' = "applyFirst"
    /\ UNCHANGED <<nodeA, nodeB, merged, json, inferred, oldJson, newJson, diffTree,
                   records, rules1, rules2, filtered, chartConfig, chartRows, network, appVars, unitVars>>

ApplySecond ==
    /\ pc = "applyFirst"
    /\ filtered' = applyFilters(staged, rules2)
    /\ pc' = "applySecond"
    /\ UNCHANGED <<nodeA, nodeB, merged, json, inferred, oldJson, newJson, diffTree,
                   records, rules1, rules2, staged, chartConfig, chartRows, network, appVars, unitVars>>

NextFilter == ApplyFilters \/ ApplyFirst \/ ApplySecond

SpecFilter == InitFilter /\ [][NextFilter]_vars

----------------------------------------------------------------------------
(* One item against one rule, as the callback of filters.every does it:     *)
(* getValueAtPath(item, filter.path), then matchesFilter on what it gave.   *)

\* what the field n of an item holds
NumberFieldValues == {JNum(0), JNum(1), JNum(2), JNum(3), JStr(<<"1">>), JBool(TRUE), JNull}

MatchItems ==
    {JObj(<<"n", "s", "b", "z", "u">>,
          <<v, JStr(<<>>), JBool(FALSE), JNull, JObj(<<"v", "z">>, <<JNum(1), JNull>>)>>) :
        v \in NumberFieldValues}
    \cup {JObj(<<"s">>, <<JStr(<<>>)>>)}

MatchPaths ==
    {<<>>, <<"n">>, <<"s">>, <<"b">>, <<"z">>, <<"u">>, <<"w">>, <<"toString">>,
     <<"u", ".", "v">>, <<"u", ".", "z">>, <<"u", ".", "w">>,
     <<"n", ".", "v">>, <<"z", ".", "v">>, <<"w", ".", "v">>}

RuleBounds == {1, 2}

MatchRules ==
    {[id |-> "f", type |-> "number", path |-> p] : p \in MatchPaths}
    \cup {[id |-> "f", type |-> "number", path |-> p, min |-> lo] :
              p \in MatchPaths, lo \in RuleBounds}
    \cup {[id |-> "f", type |-> "number", path |-> p, max |-> hi] :
              p \in MatchPaths, hi \in RuleBounds}
    \cup {[id |-> "f", type |-> "number", path |-> p, min |-> lo, max |-> hi] :
              p \in MatchPaths, lo \in RuleBounds, hi \in RuleBounds}
    \cup {[id |-> "f", type |-> "exists", path |-> p, mode |-> m] :
              p \in MatchPaths, m \in {"exists", "missing"}}

InitMatch ==
    /\ pc = "init"
    /\ subject \in MatchItems /\ probe \in MatchRules
    /\ resolved = JUndefined /\ matched = FALSE
    /\ IdleSchema /\ IdleInfer /\ IdleDiff /\ IdleFilter /\ IdleChart /\ IdleApp
    /\ IdleCollect

MatchItem ==
    /\ pc = "init"
    /\ resolved' = getValueAtPath(subject, probe.path)
    /\ matched' = matchesFilter(getValueAtPath(subject, probe.path), probe)
    /\ pc' = "matchItem"
    /\ UNCHANGED <<coreCallVars, appVars, subject, probe, schemaIn, fieldList, numericPaths>>

SpecMatch == InitMatch /\ [][MatchItem]_vars

----------------------------------------------------------------------------
(* The two field walks applied to one schema, as FilterPanel and ChartView  *)
(* apply them to the schema of a response, in either order.                 *)

\* the types of the fields of a nested object
InnerLeafTypes ==
    {Primitive("number"), Primitive("string"),
     UnionType(<<Primitive("number"), Primitive("null")>>),
     UnionType(<<Primitive("number"), ObjectType(<<>>, <<>>)>>),
     ArrayType(SchemaNode(Primitive("number"), FALSE))}

\* the types of the fields of the schema that are not objects
LeafTypes ==
    InnerLeafTypes
    \cup {Primitive("boolean"), Primitive("null"),
          UnionType(<<Primitive("string"), Primitive("boolean")>>),
          UnionType(<<Primitive("string"), ArrayType(SchemaNode(Primitive("number"), FALSE))>>)}

InnerKeyLists == {<<>>, <<"a">>, <<"">>, <<"", "a">>}

InnerObjectTypes ==
    UNION {{ObjectType(ks, flds) :
               flds \in [1..Len(ks) -> {SchemaNode(t, FALSE) : t \in InnerLeafTypes}]} :
           ks \in InnerKeyLists}

CollectFieldNodes ==
    {SchemaNode(t, o) : t \in LeafTypes, o \in BOOLEAN}
    \cup {SchemaNode(t, FALSE) : t \in InnerObjectTypes}

CollectKeyLists == {<<"a">>, <<"a", "b">>, <<"", "a">>}

CollectSchemas ==
    {NullSchema}
    \cup {SchemaNode(t, FALSE) : t \in LeafTypes}
    \cup UNION {{SchemaNode(ObjectType(ks, flds), FALSE) :
                    flds \in [1..Len(ks) -> CollectFieldNodes]} :
                ks \in CollectKeyLists}

InitCollect ==
    /\ pc = "init"
    /\ schemaIn \in CollectSchemas
    /\ fieldList = <<>> /\ numericPaths = <<>>
    /\ IdleSchema /\ IdleInfer /\ IdleDiff /\ IdleFilter /\ IdleChart /\ IdleApp
    /\ IdleMatch

CollectFilterableFields ==
    /\ pc \in {"init", "getNumericFieldPaths"}
    /\ fieldList' = collectFilterableFields(schemaIn, <<>>)
    /\ pc' = IF pc = "init" THEN "collectFilterableFields" ELSE "both"
    /\ UNCHANGED <<coreCallVars, appVars, subject, probe, resolved, matched,
                   schemaIn, numericPaths>>

GetNumericFieldPaths ==
    /\ pc \in {"init", "collectFilterableFields"}
    /\ numericPaths' = getNumericFieldPaths(schemaIn)
    /\ pc' = IF pc = "init" THEN "getNumericFieldPaths" ELSE "both"
    /\ UNCHANGED <<coreCallVars, appVars, subject, probe, resolved, matched,
                   schemaIn, fieldList>>

NextCollect == CollectFilterableFields \/ GetNumericFieldPaths

SpecCollect == InitCollect /\ [][NextCollect]_vars

----------------------------------------------------------------------------
(* buildChartData applied to a record list and a ChartConfig *)

InitChart ==
    /\ pc = "init"
    /\ records \in RecordLists /\ chartConfig \in ChartConfigs
    /\ chartRows = <<>> /\ network = <<>>
    /\ rules1 = <<>> /\ rules2 = <<>> /\ filtered = <<>> /\ staged = <<>>
    /\ IdleSchema /\ IdleInfer /\ IdleDiff /\ IdleApp /\ IdleMatch /\ IdleCollect

BuildChartData ==
    /\ pc = "init"
    /\ chartRows' = buildChartData(records, chartConfig)
    /\ network' = IF IsUnset(chartConfig.xField) \/ IsUnset(chartConfig.yField)
                  THEN network
                  ELSE Append(network, chartLogRequest(records, chartConfig,
                                           buildChartData(records, chartConfig)))
    /\ pc' = "buildChartData"
    /\ UNCHANGED <<nodeA, nodeB, merged, json, inferred, oldJson, newJson, diffTree,
                   records, rules1, rules2, filtered, staged, chartConfig, appVars, unitVars>>

SpecChart == InitChart /\ [][BuildChartData]_vars

----------------------------------------------------------------------------
(* Properties of applyFilters *)

\* C8: applyFilters(records, rules1 ++ rules2) returns the same records in
\* the same order as applyFilters(applyFilters(records, rules1), rules2).
FilterComposition ==
    /\ pc = "applySecond" => filtered = applyFilters(records, rules1 \o rules2)
    /\ pc = "applyFilters" => filtered = applyFilters(applyFilters(records, rules1), rules2)

\* two rules, each of which drops a record the other keeps
FilterCompositionWitness ==
    /\ pc = "applySecond"
    /\ Len(rules1) > 0 /\ Len(rules2) > 0
    /\ Len(filtered) > 0
    /\ Len(filtered) < Len(staged) /\ Len(staged) < Len(records)
    /\ applyFilters(records, rules2) # filtered

RECURSIVE IsSubsequence(_, _)
\* s is t with some of its elements left out
IsSubsequence(s, t) ==
    IF s = <<>> THEN TRUE
    ELSE IF t = <<>> THEN FALSE
    ELSE IF Head(s) = Head(t) /\ IsSubsequence(Tail(s), Tail(t)) THEN TRUE
    ELSE IsSubsequence(s, Tail(t))

\* C10: every call returns a subsequence of the list it was given, and the
\* caller's list and its records are after the call what they were before.
FilterPreservesInput ==
    [][/\ records' = records
       /\ pc' = "applyFilters" => IsSubsequence(filtered', records)
       /\ pc' = "applyFirst"   => IsSubsequence(staged', records)
       /\ pc' = "applySecond"  => IsSubsequence(filtered', staged)]_vars

\* a call that drops the record between two records it keeps
FilterPreservesInputWitness ==
    /\ pc = "applyFilters"
    /\ Len(records) = 3 /\ Len(filtered) = 2
    /\ filtered[1] = records[1] /\ filtered[2] = records[3]
    /\ records[2] # records[1] /\ records[2] # records[3] /\ records[1] # records[3]

\* the rule passes on the value the record has at the rule's path
RulePasses(item, rule) == matchesFilter(getValueAtPath(item, rule.path), rule)

\* C11: a record is in the output of applyFilters(records, rules) exactly
\* when every rule passes on the value at the rule's path in that record,
\* as often as it is in the input; with no rule every record is returned.
FilterAndComposition ==
    pc = "applyFilters" =>
        LET rules == rules1 \o rules2
        IN  /\ \A r \in Range(records) :
                  LET occurrences(list) == Cardinality({i \in DOMAIN list : list[i] = r})
                  IN  occurrences(filtered) =
                          IF \A i \in DOMAIN rules : RulePasses(r, rules[i])
                          THEN occurrences(records) ELSE 0
            /\ Range(filtered) \subseteq Range(records)
            /\ rules = <<>> => filtered = records

\* two rules of which a record passes the second and not the first, another
\* the first and not the second, and a third both
FilterAndCompositionWitness ==
    /\ pc = "applyFilters"
    /\ Len(rules1 \o rules2) = 2
    /\ LET rules == rules1 \o rules2
       IN  /\ \E i \in DOMAIN records :
                 ~RulePasses(records[i], rules[1]) /\ RulePasses(records[i], rules[2])
           /\ \E i \in DOMAIN records :
                 RulePasses(records[i], rules[1]) /\ ~RulePasses(records[i], rules[2])
           /\ Len(filtered) = 1

----------------------------------------------------------------------------
(* Properties of buildChartData *)

BothFieldsSet == ~IsUnset(chartConfig.xField) /\ ~IsUnset(chartConfig.yField)

\* the record has a defined value (null counts) at xField and a number at yField
HasDefinedXY(row) ==
    /\ getValueAtPath(row, chartConfig.xField.path).k # "undefined"
    /\ getValueAtPath(row, chartConfig.yField.path).k = "number"
\* the record has a value that is neither undefined nor null at xField and a
\* number at yField
HasNonNullXY(row) ==
    /\ ~IsNullish(getValueAtPath(row, chartConfig.xField.path))
    /\ getValueAtPath(row, chartConfig.yField.path).k = "number"

\* C9 as stated: with both fields set there are at most as many points as
\* records, and as many exactly when every record has a defined value at
\* xField and a number at yField.
ChartPointCountDefined ==
    (pc = "buildChartData" /\ BothFieldsSet) =>
        /\ Len(chartRows) <= Len(records)
        /\ Len(chartRows) = Len(records) <=>
              \A i \in DOMAIN records : HasDefinedXY(records[i])

\* C9 amended: ... exactly when every record has at xField a value that is
\* neither undefined nor null, and a number at yField.
ChartPointCount ==
    (pc = "buildChartData" /\ BothFieldsSet) =>
        /\ Len(chartRows) <= Len(records)
        /\ Len(chartRows) = Len(records) <=>
              \A i \in DOMAIN records : HasNonNullXY(records[i])

\* one record charted and one with a number at yField skipped for its null x
ChartPointCountWitness ==
    /\ pc = "buildChartData" /\ BothFieldsSet
    /\ Len(records) = 2 /\ Len(chartRows) = 1
    /\ \E i \in DOMAIN records :
          /\ getValueAtPath(records[i], chartConfig.xField.path).k = "null"
          /\ getValueAtPath(records[i], chartConfig.yField.path).k = "number"

\* the point of a record: x is the value at xField if that is a number and
\* its string form otherwise, y is the value at yField
PointOf(row) ==
    LET xVal == getValueAtPath(row, chartConfig.xField.path)
    IN  [x |-> IF xVal.k = "number" THEN xVal ELSE JStr(StringOf(xVal)),
         y |-> getValueAtPath(row, chartConfig.yField.path)]

PointsOf(rows) == [i \in DOMAIN rows |-> PointOf(rows[i])]

\* C25 as stated: nothing when xField or yField is unset; otherwise, in the
\* order of the records, the point of each record that has a defined value
\* (null counts) at xField and a number at yField.
ChartProjectionDefined ==
    pc = "buildChartData" =>
        chartRows = IF BothFieldsSet THEN PointsOf(SelectSeq(records, HasDefinedXY))
                    ELSE <<>>

\* C25 amended: ... the point of each record that has at xField a value that
\* is neither undefined nor null, and a number at yField.
ChartProjection ==
    pc = "buildChartData" =>
        chartRows = IF BothFieldsSet THEN PointsOf(SelectSeq(records, HasNonNullXY))
                    ELSE <<>>

\* three records, the second without a point, the other two with different
\* points
ChartProjectionWitness ==
    /\ pc = "buildChartData" /\ BothFieldsSet
    /\ Len(records) = 3 /\ Len(chartRows) = 2
    /\ ~HasNonNullXY(records[2])
    /\ chartRows[1] # chartRows[2]
    /\ chartRows[1].x.k = "string"

----------------------------------------------------------------------------
(* Properties of getValueAtPath and matchesFilter *)

RECURSIVE OwnValueAt(_, _, _)
\* the value reached from v by the keys from the i-th on, each taken as a
\* key the object itself has; undefined where there is no such object or key
OwnValueAt(v, keys, i) ==
    IF i > Len(keys) THEN v
    ELSE IF v.k = "object" /\ HasOwn(v, keys[i])
         THEN OwnValueAt(v.items[IndexOf(v.keys, keys[i])], keys, i + 1)
         ELSE JUndefined

\* C22: resolving a dot-separated path on a record yields the value reached
\* by following each segment as a key of the object, and undefined as soon
\* as a value on the way is not an object or does not have the next key; a
\* field that holds null resolves to null.
PathResolution ==
    pc = "matchItem" => resolved = OwnValueAt(subject, Split(probe.path), 1)

\* C23: a number rule passes exactly when the resolved value is a number,
\* not below min when min is set and not above max when max is set.
NumberPredicate ==
    (pc = "matchItem" /\ probe.type = "number") =>
        (matched <=> /\ resolved.k = "number"
                     /\ "min" \in DOMAIN probe => probe.min <= resolved.n
                     /\ "max" \in DOMAIN probe => resolved.n <= probe.max)

\* a number that is both bounds passes
NumberPredicateWitness ==
    /\ pc = "matchItem" /\ probe.type = "number"
    /\ DOMAIN probe = {"id", "type", "path", "min", "max"}
    /\ resolved = JNum(probe.min) /\ resolved = JNum(probe.max)
    /\ matched

\* C24: an exists rule of mode exists passes exactly when the path resolved
\* to something other than undefined, and one of mode missing exactly when
\* it resolved to undefined.
ExistsPredicate ==
    (pc = "matchItem" /\ probe.type = "exists") =>
        /\ probe.mode = "exists" => (matched <=> resolved # JUndefined)
        /\ probe.mode = "missing" => (matched <=> resolved = JUndefined)

\* a field holding null exists
ExistsPredicateWitness ==
    /\ pc = "matchItem" /\ probe.type = "exists" /\ probe.mode = "exists"
    /\ probe.path = <<"z">> /\ resolved = JNull /\ matched

\* C13: a call of the core causes no network request: nothing has been
\* handed to fetch when buildChartData has returned.
CoreNoNetworkRequest ==
    pc = "buildChartData" => network = <<>>

----------------------------------------------------------------------------
(* Properties of collectFilterableFields and getNumericFieldPaths *)

\* the lists of keys that lead from a schema to a field of it
CollectKeyPaths == SeqsUpTo({"", "a", "b"}, 2)

RECURSIVE NodeAt(_, _)
\* the node reached from a node through the object fields named by the keys,
\* NoNode if the keys lead through something that is not an object field
NodeAt(node, ks) ==
    IF ks = <<>> THEN node
    ELSE IF node.type.kind = "object" /\ HasOwnField(node.type, Head(ks))
         THEN NodeAt(FieldOf(node.type, Head(ks)), Tail(ks))
         ELSE NoNode

RECURSIVE DotJoined(_)
\* the keys joined by dots
DotJoined(ks) ==
    IF ks = <<>> THEN <<>>
    ELSE KeyText(Head(ks)) \o (IF Len(ks) > 1 THEN <<".">> \o DotJoined(Tail(ks)) ELSE <<>>)

\* a primitive, or a union of primitives only
IsFilterableLeaf(node) ==
    \/ node.type.kind = "primitive"
    \/ /\ node.type.kind = "union"
       /\ \A i \in DOMAIN node.type.types : node.type.types[i].kind = "primitive"

\* the primitive number, or a union that has it as a member
IsNumericLeaf(node) ==
    \/ node.type.kind = "primitive" /\ node.type.type = "number"
    \/ /\ node.type.kind = "union"
       /\ \E i \in DOMAIN node.type.types : node.type.types[i] = Primitive("number")

FieldKindOf(node) ==
    IF node.type.kind = "primitive" /\ node.type.type # "null" THEN node.type.type
    ELSE "unknown"

FilterableLeaves(schema) ==
    {ks \in CollectKeyPaths : IsFilterableLeaf(NodeAt(schema, ks))}

\* C26: collectFilterableFields returns nothing for null, and otherwise one
\* entry for each primitive and each union of primitives reached through
\* object fields only, holding the keys joined by dots, the kind (string,
\* number or boolean, unknown for null and for a union) and the node's
\* optional flag, and no other entry.
FilterableFieldsExact ==
    pc \in {"collectFilterableFields", "both"} =>
        IF schemaIn = NullSchema THEN fieldList = <<>>
        ELSE /\ Len(fieldList) = Cardinality(FilterableLeaves(schemaIn))
             /\ \A ks \in FilterableLeaves(schemaIn) :
                   \E i \in DOMAIN fieldList :
                       fieldList[i] = [path     |-> DotJoined(ks),
                                       kind     |-> FieldKindOf(NodeAt(schemaIn, ks)),
                                       optional |-> NodeAt(schemaIn, ks).optional]

\* C27: every path getNumericFieldPaths returns is the keys, joined by dots,
\* of a number or of a union with the member number reached through object
\* fields only, and is the path of an entry of collectFilterableFields for
\* the same schema.
NumericPathsSubset ==
    pc = "both" =>
        \A i \in DOMAIN numericPaths :
            /\ \E j \in DOMAIN fieldList : fieldList[j].path = numericPaths[i]
            /\ schemaIn # NullSchema
            /\ \E ks \in CollectKeyPaths :
                  /\ DotJoined(ks) = numericPaths[i]
                  /\ IsNumericLeaf(NodeAt(schemaIn, ks))

----------------------------------------------------------------------------
(* App.tsx, hooks/useApiRequest.ts, components/RequestBuilder.tsx and the    *)
(* Diff tab of components/ResponseViewer.tsx.  A header map is the list of   *)
(* its entries in insertion order.  React runs the effect of a committed     *)
(* render before it handles the next event or renders the next update, so    *)
(* the effect on lastResult is part of the step that sets lastResult.        *)

HISTORY_LIMIT == 5

\* most calls of execute in one session
MaxExecutions == 2
\* most calls of execute waiting for their response at one time
MaxInFlight == 2

DEFAULT_HEADERS ==
    <<[key |-> "Accept", value |-> "application/json, text/plain;q=0.9"]>>

\* rows with a blank key are left out
fromHeaderRows(rows) == SelectSeq(rows, LAMBDA row : row.key # "")

toHeaderRows(headers) ==
    [i \in DOMAIN headers |-> [key |-> headers[i].key, value |-> headers[i].value]]

RECURSIVE StringifyHeaders(_, _)
\* JSON.stringify(headers) from the i-th entry on, as a token list
StringifyHeaders(headers, i) ==
    IF i > Len(headers) THEN <<"}">>
    ELSE <<IF i = 1 THEN "{" ELSE ",", headers[i].key, ":", headers[i].value>>
         \o StringifyHeaders(headers, i + 1)

\* value.url.trim() is not empty and new URL(value.url) does not throw
isValidUrl(url) == url \notin {"", "users"}

\* const disabled = submitting || !isValidUrl, with submitting={loading}
SendDisabled == loading \/ ~isValidUrl(builder.url)

\* v used as a condition
Truthy(v) ==
    ~ \/ v.k \in {"null", "undefined"}
      \/ v.k = "boolean" /\ ~v.b
      \/ v.k = "number" /\ v.n = 0
      \/ v.k = "string" /\ v.s = <<>>

\* contentType.includes("application/json") || contentType.includes("+json")
IsJsonContentType(contentType) ==
    contentType \in {"application/json", "application/json; charset=utf-8",
                     "application/problem+json"}

\* null where a ParsedResponse is expected
NullParsed == [kind |-> "null"]

\* parseBody for data that axios has parsed (not a string) and for a string
\* that does not begin with { or [
parseBody(data, contentType) ==
    IF IsJsonContentType(contentType) /\ data.k # "string"
    THEN [kind |-> "json", jsonBody |-> data]
    ELSE IF data.k \in {"object", "array"}      \* rawBody begins with { or [
    THEN [kind |-> "json", jsonBody |-> data]
    ELSE IF data.k = "string" THEN [kind |-> "text"]
    ELSE [kind |-> "unknown"]

\* what axios.request settles with: a response, or an error without one
NetworkError == [failed |-> TRUE]
Response(status, data, contentType) ==
    [failed |-> FALSE, status |-> status, data |-> data, contentType |-> contentType]

\* the RequestExecutionResult that execute sets for a settled request
resultOf(request, response) ==
    IF response.failed
    THEN [request  |-> request,
          parsed   |-> NullParsed,
          metadata |-> [status |-> 0, isError |-> TRUE]]     \* 0: status is null
    ELSE [request  |-> request,
          parsed   |-> parseBody(response.data, response.contentType),
          metadata |-> [status |-> response.status, isError |-> response.status >= 400]]

\* the callback of prev.findIndex
sameRequest(item, result) ==
    /\ item.request.url = result.request.url
    /\ item.request.method = result.request.method
    /\ StringifyHeaders(item.request.headers, 1) = StringifyHeaders(result.request.headers, 1)

\* items.slice(0, n)
Slice(items, n) == SubSeq(items, 1, IF Len(items) < n THEN Len(items) ELSE n)

\* the updater leaving the cutting to persistHistory: no slice of its own
updatedHistoryUncut(prev, result) ==
    LET matching == {idx \in DOMAIN prev : sameRequest(prev[idx], result)}
        existingIndex == IF matching = {} THEN 0
                         ELSE CHOOSE idx \in matching : \A other \in matching : idx <= other
    IN  <<result>> \o (IF existingIndex > 0
                       THEN SubSeq(prev, 1, existingIndex - 1)
                                \o SubSeq(prev, existingIndex + 1, Len(prev))
                       ELSE prev)

\* the updater that the effect on lastResult hands to setHistory
updatedHistory(prev, result) ==
    LET matching      == {idx \in DOMAIN prev : sameRequest(prev[idx], result)}
        \* findIndex: the first match; 0 stands for the -1 of no match
        existingIndex == IF matching = {} THEN 0
                         ELSE CHOOSE idx \in matching : \A other \in matching : idx <= other
        withoutDuplicate ==
            IF existingIndex > 0
            THEN SubSeq(prev, 1, existingIndex - 1) \o SubSeq(prev, existingIndex + 1, Len(prev))
            ELSE prev
    IN  Slice(<<result>> \o withoutDuplicate, HISTORY_LIMIT)

\* JSON.stringify of a result list: every member of these records is a
\* string, a number, a boolean or a JSON value, and is written as it is
stringifyHistory(items) == [null |-> FALSE, items |-> items]

\* persistHistory: what setItem stores
persistHistory(items) == stringifyHistory(Slice(items, HISTORY_LIMIT))

\* the filter of parseHistory: the item has a request with a url, a method
\* and a createdAt
looksLikeOurs(item) ==
    /\ "request" \in DOMAIN item
    /\ {"url", "method", "createdAt"} \subseteq DOMAIN item.request

parseHistory(raw) ==
    IF raw.null THEN <<>>
    ELSE SelectSeq(raw.items, looksLikeOurs)

\* previousResult={history.length > 1 ? history[1] : null}
previousResult == IF Len(history) > 1 THEN history[2] ELSE NullResult

\* result?.parsed?.jsonBody
jsonBodyOf(result) ==
    IF result = NullResult THEN JUndefined
    ELSE IF "jsonBody" \in DOMAIN result.parsed THEN result.parsed.jsonBody
    ELSE JUndefined

\* the disabled attribute of the Diff tab
diffTabDisabled ==
    \/ lastResult = NullResult
    \/ lastResult.parsed.kind # "json"
    \/ ~Truthy(lastResult.parsed.jsonBody)
    \/ ~Truthy(jsonBodyOf(previousResult))

\* the Diff tab shows a DiffTree: both results have a JSON body that is not null
diffShown ==
    /\ ~loading /\ lastResult # NullResult
    /\ lastResult.parsed.kind = "json" /\ ~IsNullish(lastResult.parsed.jsonBody)
    /\ previousResult # NullResult
    /\ previousResult.parsed.kind = "json" /\ ~IsNullish(previousResult.parsed.jsonBody)

----------------------------------------------------------------------------
(* The application: mounted once, then driven by the user and by the         *)
(* responses.                                                                *)

TypedUrls  == {"https://a.test/users", "https://b.test/users"}
StoredUrls == <<"https://a.test/users", "https://c.test/users", "https://d.test/users",
                "https://e.test/users", "https://f.test/users">>

JsonBodies == {JObj(<<"a">>, <<JNum(1)>>), JObj(<<"a">>, <<JNum(2)>>)}
\* what a request can settle with: a response of status 200, one of status
\* 404 (validateStatus lets every status through), or no response at all
Responses ==
    {Response(200, body, "application/json") : body \in JsonBodies}
    \cup {Response(404, JObj(<<"a">>, <<JNum(1)>>), "application/json"), NetworkError}

\* the k-th newest result of an earlier session: its request was created
\* k ticks before this session began
StoredResult(k) ==
    resultOf([id |-> 0 - k, createdAt |-> 0 - k, url |-> StoredUrls[k], method |-> "GET",
              headers |-> fromHeaderRows(DEFAULT_HEADERS)],
             Response(200, JObj(<<"a">>, <<JNum(1)>>), "application/json"))

\* what earlier sessions can have left in localStorage
StoredHistories ==
    {NoItem} \cup {persistHistory([k \in 1..n |-> StoredResult(k)])
                     : n \in (HISTORY_LIMIT - 1)..HISTORY_LIMIT}

InitApp ==
    /\ pc = "init"
    /\ loading = FALSE /\ lastResult = NullResult /\ builder = InitialBuilder
    /\ history = <<>> /\ localStorage \in StoredHistories /\ pending = {}
    /\ clock = 0 /\ preceding = NullResult
    /\ IdleSchema /\ IdleInfer /\ IdleDiff /\ IdleFilter /\ IdleChart
    /\ IdleMatch /\ IdleCollect

coreVars == <<nodeA, nodeB, merged, json, inferred, oldJson, newJson, diffTree,
              records, rules1, rules2, filtered, staged, chartConfig, chartRows, network, unitVars>>

\* the effects of the first render: App reads the stored history, and
\* RequestBuilder, finding no header row, puts in the default ones
Mount ==
    /\ pc = "init"
    /\ pc' = "App"
    /\ history' = parseHistory(localStorage)
    /\ builder' = [builder EXCEPT !.headers = DEFAULT_HEADERS]
    /\ UNCHANGED <<loading, lastResult, localStorage, pending, clock, preceding, coreVars>>

\* handleUrlChange
ChangeUrl(next) ==
    /\ pc = "App"
    /\ builder' = [builder EXCEPT !.url = next]
    /\ UNCHANGED <<pc, loading, lastResult, history, localStorage, pending, clock,
                   preceding, coreVars>>

\* handleRemoveHeader for the row at position i
RemoveHeader(i) ==
    /\ pc = "App"
    /\ i \in DOMAIN builder.headers
    /\ builder' = [builder EXCEPT !.headers =
                      SubSeq(builder.headers, 1, i - 1)
                          \o SubSeq(builder.headers, i + 1, Len(builder.headers))]
    /\ UNCHANGED <<pc, loading, lastResult, history, localStorage, pending, clock,
                   preceding, coreVars>>

\* execute up to its await: the request gets its id and createdAt, loading
\* is set and the request is handed to axios
execute(reqInput) ==
    /\ clock < MaxExecutions
    /\ Cardinality(pending) < MaxInFlight
    /\ clock' = clock + 1
    /\ loading' = TRUE
    /\ pending' = pending \cup {[id |-> clock + 1, createdAt |-> clock + 1,
                                 url |-> reqInput.url, method |-> reqInput.method,
                                 headers |-> reqInput.headers]}

\* a click on Send, which the button takes when it is not disabled: handleSubmit
Send ==
    /\ pc = "App"
    /\ ~SendDisabled
    /\ execute([url |-> builder.url, method |-> builder.method,
                headers |-> fromHeaderRows(builder.headers)])
    /\ UNCHANGED <<pc, lastResult, builder, history, localStorage, preceding, coreVars>>

\* a click on the history entry at position i: handleReplay
Replay(i) ==
    /\ pc = "App"
    /\ i \in DOMAIN history
    /\ LET request == history[i].request
       IN  /\ builder' = [url |-> request.url, method |-> request.method,
                          headers |-> toHeaderRows(request.headers)]
           /\ execute([url |-> request.url, method |-> request.method,
                       headers |-> request.headers])
    /\ UNCHANGED <<pc, lastResult, history, localStorage, preceding, coreVars>>

\* execute without its catch block: a call whose request fails without a
\* response ends without setting the state
SettleNoCatch(id, response) ==
    /\ pc = "App"
    /\ \E request \in pending :
          /\ request.id = id
          /\ LET result  == resultOf(request, response)
                 updated == updatedHistory(history, result)
             IN  IF response.failed
                 THEN UNCHANGED <<lastResult, history, localStorage, loading, preceding>>
                 ELSE /\ lastResult' = result
                      /\ history' = updated
                      /\ localStorage' = persistHistory(updated)
                      /\ loading' = FALSE
                      /\ preceding' = lastResult
          /\ pending' = pending \ {request}
    /\ UNCHANGED <<pc, builder, clock, coreVars>>

\* axios.request settles for the waiting call with this id: execute sets loading and
\* lastResult, and the effect on lastResult updates and persists the history
Settle(id, response) ==
    /\ pc = "App"
    /\ \E request \in pending :
          /\ request.id = id
          /\ LET result  == resultOf(request, response)
                 updated == updatedHistory(history, result)
             IN  /\ lastResult' = result
                 /\ history' = updated
                 /\ localStorage' = persistHistory(updated)
          /\ pending' = pending \ {request}
    /\ loading' = FALSE
    /\ preceding' = lastResult
    /\ UNCHANGED <<pc, builder, clock, coreVars>>

NextApp ==
    \/ Mount
    \/ \E next \in TypedUrls : ChangeUrl(next)
    \/ \E i \in 1..Len(DEFAULT_HEADERS) : RemoveHeader(i)
    \/ Send
    \/ \E i \in 1..HISTORY_LIMIT : Replay(i)
    \/ \E id \in 1..MaxExecutions : \E response \in Responses : Settle(id, response)

SpecApp == InitApp /\ [][NextApp]_vars

\* the application in a browser that holds no history of it
InitAppFair == InitApp /\ localStorage = NoItem

\* every request that axios has been handed settles: it resolves or rejects
SpecAppFair ==
    /\ InitAppFair /\ [][NextApp]_vars
    /\ \A id \in 1..MaxExecutions : WF_vars(\E response \in Responses : Settle(id, response))

----------------------------------------------------------------------------
(* Properties of the application *)

\* C14: whatever requests have been executed, by Send or by Replay, the
\* history list in memory and the list stored in localStorage each hold at
\* most HISTORY_LIMIT = 5 entries.
BoundedHistory ==
    /\ Len(history) <= HISTORY_LIMIT
    /\ ~localStorage.null => Len(localStorage.items) <= HISTORY_LIMIT

\* two requests of this session at the head of a full history that still
\* ends with the third newest entry of the earlier sessions: of the four or
\* five stored entries at least one has been cut off
BoundedHistoryWitness ==
    /\ pc = "App"
    /\ Len(history) = HISTORY_LIMIT
    /\ history[1].request.id > 0 /\ history[2].request.id > 0
    /\ history[HISTORY_LIMIT] = StoredResult(HISTORY_LIMIT - 2)
    /\ localStorage = stringifyHistory(history)

\* C15: while a request started by execute has not completed, loading is
\* true and the Send button is disabled.
SendDisabledWhileInFlight ==
    pending # {} => loading /\ SendDisabled

\* the result carries a JSON body
HasJsonBody(result) == result # NullResult /\ result.parsed.kind = "json"

\* C16: once the current execution and the one before it have each returned
\* a JSON body, the Diff tab is enabled and the old side of the diff is the
\* body that the execution before the current one returned.
DiffAgainstPreceding ==
    (HasJsonBody(lastResult) /\ HasJsonBody(preceding)) =>
        /\ ~diffTabDisabled
        /\ jsonBodyOf(previousResult) = jsonBodyOf(preceding)

\* C29: once every request that was started has completed, lastResult and
\* the first history entry are the result of the request started last.
NoStaleResult ==
    (pc = "App" /\ clock > 0 /\ pending = {}) =>
        /\ lastResult # NullResult /\ lastResult.request.id = clock
        /\ history # <<>> /\ history[1] = lastResult

\* the three outcomes: no response (status null, here 0) is an error without
\* a parsed body; a status below 400 is no error and one of 400 or above is
\* an error, both with a parsed body
OutcomeShape(result) ==
    IF result.metadata.status = 0
    THEN result.metadata.isError /\ result.parsed = NullParsed
    ELSE /\ result.metadata.isError <=> result.metadata.status >= 400
         /\ result.parsed # NullParsed

\* the call of execute with this id is waiting for its request
InFlight(id) == \E request \in pending : request.id = id

\* C30: a call of execute sets loading, and, its request settling at some
\* time, leads to a state in which loading is false and lastResult is the
\* result of that request, of the shape of its outcome.
ExecutionCompletes ==
    /\ [][clock' # clock =>
              (loading' /\ \E request \in pending' : request.id = clock')]_vars
    /\ \A id \in 1..MaxExecutions :
          InFlight(id) ~> /\ ~InFlight(id) /\ ~loading
                          /\ lastResult # NullResult /\ lastResult.request.id = id
                          /\ OutcomeShape(lastResult)

\* a request answered with status 404 has completed
ExecutionCompletesWitness ==
    /\ pc = "App" /\ pending = {} /\ ~loading
    /\ lastResult # NullResult /\ lastResult.request.id = clock
    /\ lastResult.metadata.status >= 400 /\ lastResult.metadata.isError
    /\ lastResult.parsed.kind = "json"

====
